---- MODULE Spec2Model ----
(***************************************************************************)
(* MicroRacer controller bridges.                                          *)
(*                                                                         *)
(*   scripts/controller_dualsense.py  control_loop / main /                *)
(*                                    calculate_motor_command /            *)
(*                                    send_command                         *)
(*   scripts/controller_new.py        main (keyboard loop) / send_command  *)
(*                                                                         *)
(* Stick axis values are modelled in hundredths: the integer a stands for  *)
(* the reading a/100, so -100..100 is the range [-1.0, 1.0] and DEADZONE   *)
(* 0.10 is 10.  The arithmetic of calculate_motor_command is carried out   *)
(* exactly on these rationals and truncated toward zero as int() does.     *)
(***************************************************************************)
EXTENDS Integers, Sequences, FiniteSets, TLC

VARIABLES
    \* ---- controller_dualsense.py : control_loop ----
    pc,                     \* "poll" (top of while), "sleep" (asyncio.sleep),
                            \* "done" (after break), "failed" (exception in main)
    max_speed_index,        \* index into MAX_SPEED_LEVELS (0-based)
    last_dpad_state,        \* <<h, v>>
    emergency_stop_active,  \* the loop's flag
    sample,                 \* the readings taken by the latest tick
    started,                \* at least one tick has run
    prev_button_x,          \* button_x as read by the tick before the latest
    prev_index,             \* max_speed_index as the latest tick found it
    tick_frames,            \* frames handed to the transport by the latest tick
    mix_evaluated,          \* calculate_motor_command was called by the latest tick
    error_reported,         \* main's except clause printed the error
    \* ---- controller_new.py : main ----
    kpc,                    \* "read", "done", "failed"
    ksent,                  \* frames handed to the transport, oldest first
    \* ---- calculate_motor_command called on its own ----
    targs,                  \* <<left_stick_x, left_stick_y, max_speed_limit>>
    tresult                 \* the returned tuple, or <<>> before the call

loopvars == <<pc, max_speed_index, last_dpad_state, emergency_stop_active,
              sample, started, prev_button_x, prev_index, tick_frames,
              mix_evaluated, error_reported>>
keyvars == <<kpc, ksent>>
transvars == <<targs, tresult>>
vars == <<loopvars, keyvars, transvars>>

----------------------------------------------------------------------------
\* Configuration of controller_dualsense.py (axis values in hundredths).
DEADZONE == 10
MAX_SPEED == 50
MAX_MIXER == 30
MAX_SPEED_LEVELS == <<50, 75, 100>>

\* Python's len(MAX_SPEED_LEVELS) - 1, the top index (0-based).
TopIndex == Len(MAX_SPEED_LEVELS) - 1

\* MAX_SPEED_LEVELS[i] as Python indexes a list: 0-based, a negative index
\* counts from the end, anything else raises IndexError.
Indexable(i) == i \in -Len(MAX_SPEED_LEVELS) .. Len(MAX_SPEED_LEVELS) - 1
LevelAt(i) == MAX_SPEED_LEVELS[(IF i < 0 THEN i + Len(MAX_SPEED_LEVELS) ELSE i) + 1]

----------------------------------------------------------------------------
\* Bounds of the model.

\* Keys the keyboard session reads before the model stops reading.
MaxKeys == 3

\* Stick readings the control loop is offered (hundredths).
LoopAxisX == {-100, 0, 60}
LoopAxisY == {-100, 5, 40}

\* D-pad hat readings the control loop is offered: <<h, v>>.
DpadReadings == {<<h, v>> : h \in {-1, 0, 1}, v \in {-1, 0, 1}}

\* Stick readings calculate_motor_command is called with on its own.
Axis == -100 .. 100

\* The keys the keyboard loop acts on besides "q"; any other key is ignored.
MoveKeys == {"w", "s", "a", "d"}

----------------------------------------------------------------------------
\* Python helpers.
Abs(n) == IF n < 0 THEN -n ELSE n
Min(a, b) == IF a <= b THEN a ELSE b
Max(a, b) == IF a >= b THEN a ELSE b

\* int(n / d) for d > 0: truncation toward zero.
TruncDiv(n, d) == IF n >= 0 THEN n \div d ELSE -((-n) \div d)

----------------------------------------------------------------------------
\* controller_dualsense.py : calculate_motor_command

\* The canonical stop command (0, 1, 0, 1, 1).
StopCommand == <<0, 1, 0, 1, 1>>

\* Mutation: the threshold halved.
DeadzoneHalved(v) == IF Abs(v) < DEADZONE \div 2 THEN 0 ELSE v

\* "if abs(v) < DEADZONE: v = 0.0"
ApplyDeadzone(v) == IF Abs(v) < DEADZONE THEN 0 ELSE v

\* Mutation: the level scaling left out of the speed.
BaseSpeedUnscaled(y, max_speed_limit) == TruncDiv((-y) * MAX_SPEED, 100)

\* Mutation: the minus sign of the y axis left out.
BaseSpeedNotNegated(y, max_speed_limit) ==
    TruncDiv(y * MAX_SPEED * max_speed_limit, 100 * 100)

\* Mutation: the level divided with // (integer division) instead of /.
BaseSpeedFloorLevel(y, max_speed_limit) ==
    TruncDiv((-y) * MAX_SPEED * (max_speed_limit \div 100), 100)

\* int(-left_stick_y * MAX_SPEED * (max_speed_limit / 100.0)), y in hundredths.
BaseSpeed(y, max_speed_limit) ==
    TruncDiv((-y) * MAX_SPEED * max_speed_limit, 100 * 100)

\* int(left_stick_x * MAX_MIXER * (max_speed_limit / 100.0)), x in hundredths.
BaseMixer(x, max_speed_limit) ==
    TruncDiv(x * MAX_MIXER * max_speed_limit, 100 * 100)

\* Mutation: the boost given to right turns only.
BoostRightTurnOnly(x, y, mixer) ==
    IF Abs(y) < DEADZONE /\ Abs(x) >= DEADZONE
    THEN IF mixer > 0 THEN mixer + 25 ELSE mixer
    ELSE mixer

\* The extra juice for pure turning: +-25 on a non-zero mixer when the
\* (deadzoned) y is inside the deadzone and the (deadzoned) x is not.
BoostMixer(x, y, mixer) ==
    IF Abs(y) < DEADZONE /\ Abs(x) >= DEADZONE
    THEN IF mixer > 0 THEN mixer + 25
         ELSE IF mixer < 0 THEN mixer - 25
         ELSE mixer
    ELSE mixer

\* Mutation: abs() left out, the signed wheel speeds are returned.
TankMixSigned(speed, mixer) ==
    LET speed_a == speed + mixer
        speed_b == speed - mixer
        motor_a_dir == IF speed_a >= 0 THEN 1 ELSE 0
        motor_b_dir == IF speed_b >= 0 THEN 1 ELSE 0
    IN  <<Min(100, speed_a), motor_a_dir, Min(100, speed_b), motor_b_dir, 2>>

\* Tank drive mixing, sign to direction, clamp, duration 2.
TankMix(speed, mixer) ==
    LET speed_a == speed + mixer
        speed_b == speed - mixer
        motor_a_dir == IF speed_a >= 0 THEN 1 ELSE 0
        motor_b_dir == IF speed_b >= 0 THEN 1 ELSE 0
    IN  <<Min(100, Abs(speed_a)), motor_a_dir,
          Min(100, Abs(speed_b)), motor_b_dir, 2>>

calculate_motor_command(left_stick_x, left_stick_y, max_speed_limit) ==
    LET x == ApplyDeadzone(left_stick_x)
        y == ApplyDeadzone(left_stick_y)
    IN  IF x = 0 /\ y = 0
        THEN StopCommand
        ELSE TankMix(BaseSpeed(y, max_speed_limit),
                     BoostMixer(x, y, BaseMixer(x, max_speed_limit)))

----------------------------------------------------------------------------
\* send_command (both scripts): bytearray([...]) then write_gatt_char.

\* bytearray(list) raises ValueError unless every item is in range(256).
Encodable(command) == \A i \in 1..Len(command) : command[i] \in 0..255

\* Mutation: each direction written before its speed.
FrameDirectionFirst(command) ==
    <<command[2], command[1], command[4], command[3], command[5]>>

\* The 5-byte frame: the fields in order, one byte each.
Frame(command) ==
    <<command[1], command[2], command[3], command[4], command[5]>>

\* Outcomes of one send_command: TRUE when the write returns, FALSE when
\* it raises (bytearray's ValueError, or a transport error at any time).
WriteOutcomes(command) == IF Encodable(command) THEN BOOLEAN ELSE {FALSE}

\* The frames the transport was handed by one send_command.
Handed(command) == IF Encodable(command) THEN <<Frame(command)>> ELSE <<>>

----------------------------------------------------------------------------
\* controller_dualsense.py : control_loop

Samples ==
    [left_x : LoopAxisX, left_y : LoopAxisY,
     button_x : BOOLEAN, button_circle : BOOLEAN, dpad : DpadReadings]

\* Mutation: the emergency stop is examined before quit.
QuitAfterEmergency(button_circle, button_x) == button_circle /\ ~button_x

\* "if button_circle:" -- the first test of the tick.
QuitRequested(button_circle, button_x) == button_circle

\* Mutation: only the first tick of a press overrides the mixing.
EngagedOnEdgeOnly(button_x, active) == button_x /\ ~active

\* Mutation: the flag latches the stop past the release.
EngagedLatched(button_x, active) == button_x \/ active

\* "if button_x:" -- level-triggered on the current reading.
EmergencyStopEngaged(button_x, active) == button_x

\* Mutation: the condition inverted, the stop is sent from the second tick on.
StopWhenAlreadyActive(active) == IF active THEN <<StopCommand>> ELSE <<>>

\* The commands an emergency-stop tick sends: one stop when the flag was
\* not yet set, none while it stays set.
EmergencyStopCommands(active) == IF ~active THEN <<StopCommand>> ELSE <<>>

\* Mutation: no saturation at the top of the ladder.
DpadUnsaturated(index, dpad, last) ==
    IF dpad # last
    THEN IF dpad[2] = 1 THEN index + 1
         ELSE IF dpad[2] = -1 THEN Max(0, index - 1)
         ELSE index
    ELSE index

\* Mutation: the ladder wraps around instead of saturating.
DpadWraps(index, dpad, last) ==
    IF dpad # last
    THEN IF dpad[2] = 1 THEN (index + 1) % Len(MAX_SPEED_LEVELS)
         ELSE IF dpad[2] = -1 THEN (index - 1) % Len(MAX_SPEED_LEVELS)
         ELSE index
    ELSE index

\* The D-pad speed adjustment: the new max_speed_index.
SpeedIndexAfterDpad(index, dpad, last) ==
    IF dpad # last
    THEN IF dpad[2] = 1 THEN Min(TopIndex, index + 1)
         ELSE IF dpad[2] = -1 THEN Max(0, index - 1)
         ELSE index
    ELSE index

\* Mutation: the D-pad is handled before the emergency-stop test.
DpadHandledWhileStopped(index, dpad, last) ==
    SpeedIndexAfterDpad(index, dpad, last)

\* max_speed_index after an emergency-stop tick: "continue" skips the
\* D-pad handling, the index is left as it was.
IndexAfterEmergencyStop(index, dpad, last) == index

\* Mutation: the level is looked up before the D-pad adjustment.
LevelBeforeAdjustment(old_index, new_index) == LevelAt(old_index)

\* "max_speed = MAX_SPEED_LEVELS[max_speed_index]" after the adjustment.
MixLevel(old_index, new_index) == LevelAt(new_index)

\* What every tick does first: take the readings.
Poll(s) ==
    /\ pc = "poll"
    /\ sample' = s
    /\ started' = TRUE
    /\ prev_button_x' = (started /\ sample.button_x)
    /\ prev_index' = max_speed_index

\* "Handle quit": send the stop command and break; a write that raises
\* leaves control_loop and is printed by main's except clause.
TickQuit ==
    \E s \in Samples, ok \in WriteOutcomes(StopCommand) :
        /\ Poll(s)
        /\ QuitRequested(s.button_circle, s.button_x)
        /\ tick_frames' = Handed(StopCommand)
        /\ mix_evaluated' = FALSE
        /\ pc' = IF ok THEN "done" ELSE "failed"
        /\ error_reported' = ~ok
        /\ UNCHANGED <<max_speed_index, last_dpad_state, emergency_stop_active>>

\* "Handle emergency stop", button_x pressed: set the flag and send the stop
\* command if the flag was clear, then "continue" to the top of the loop.
TickEmergencyStop ==
    \E s \in Samples :
        /\ Poll(s)
        /\ ~QuitRequested(s.button_circle, s.button_x)
        /\ EmergencyStopEngaged(s.button_x, emergency_stop_active)
        /\ LET cmds == EmergencyStopCommands(emergency_stop_active)
           IN  \E ok \in (IF cmds = <<>> THEN {TRUE} ELSE WriteOutcomes(cmds[1])) :
                   /\ tick_frames' = (IF cmds = <<>> THEN <<>> ELSE Handed(cmds[1]))
                   /\ pc' = IF ok THEN "poll" ELSE "failed"
                   /\ error_reported' = ~ok
        /\ emergency_stop_active' = TRUE
        /\ mix_evaluated' = FALSE
        /\ max_speed_index' =
               IndexAfterEmergencyStop(max_speed_index, s.dpad, last_dpad_state)
        /\ UNCHANGED last_dpad_state

\* The normal tick: clear the flag, adjust the speed level, mix, send, and
\* go on to the display update and asyncio.sleep(0.05).
TickDrive ==
    \E s \in Samples :
        /\ Poll(s)
        /\ ~QuitRequested(s.button_circle, s.button_x)
        /\ ~EmergencyStopEngaged(s.button_x, emergency_stop_active)
        /\ emergency_stop_active' = FALSE
        /\ max_speed_index' =
               SpeedIndexAfterDpad(max_speed_index, s.dpad, last_dpad_state)
        /\ last_dpad_state' = s.dpad
        /\ IF Indexable(max_speed_index')
           THEN /\ mix_evaluated' = TRUE
                /\ LET command == calculate_motor_command(
                                      s.left_x, s.left_y,
                                      MixLevel(max_speed_index, max_speed_index'))
                   IN  \E ok \in WriteOutcomes(command) :
                           /\ tick_frames' = Handed(command)
                           /\ pc' = IF ok THEN "sleep" ELSE "failed"
                           /\ error_reported' = ~ok
           ELSE /\ mix_evaluated' = FALSE
                /\ tick_frames' = <<>>
                /\ pc' = "failed"
                /\ error_reported' = TRUE

\* "await asyncio.sleep(0.05)  # 20Hz": the wait for the next tick boundary.
Sleep ==
    /\ pc = "sleep"
    /\ pc' = "poll"
    /\ UNCHANGED <<max_speed_index, last_dpad_state, emergency_stop_active,
                   sample, started, prev_button_x, prev_index, tick_frames,
                   mix_evaluated, error_reported>>

NoSample ==
    [left_x |-> 0, left_y |-> 0, button_x |-> FALSE, button_circle |-> FALSE,
     dpad |-> <<0, 0>>]

LoopInit ==
    /\ pc = "poll"
    /\ max_speed_index = 2
    /\ last_dpad_state = <<0, 0>>
    /\ emergency_stop_active = FALSE
    /\ sample = NoSample
    /\ started = FALSE
    /\ prev_button_x = FALSE
    /\ prev_index = 2
    /\ tick_frames = <<>>
    /\ mix_evaluated = FALSE
    /\ error_reported = FALSE

----------------------------------------------------------------------------
\* controller_new.py : main (the keyboard loop)

\* The command each movement key sends.
KeyCommand(key) ==
    CASE key = "w" -> <<60, 1, 60, 1, 5>>
      [] key = "s" -> <<50, 0, 50, 0, 5>>
      [] key = "a" -> <<40, 0, 40, 1, 3>>
      [] key = "d" -> <<40, 1, 40, 0, 3>>

\* The commands the "q" branch sends before its break: none.
KeyQuitCommands == <<>>

\* key == 'q': print and break.
KeyQuit ==
    /\ kpc = "read"
    /\ ksent' = ksent \o KeyQuitCommands
    /\ kpc' = "done"

\* key in w/s/a/d: send the key's command; a write that raises leaves main.
KeyMove ==
    \E key \in MoveKeys : \E ok \in WriteOutcomes(KeyCommand(key)) :
        /\ kpc = "read"
        /\ Len(ksent) < MaxKeys
        /\ ksent' = ksent \o Handed(KeyCommand(key))
        /\ kpc' = IF ok THEN "read" ELSE "failed"

KeysInit ==
    /\ kpc = "read"
    /\ ksent = <<>>

KeysNext ==
    \/ KeyQuit /\ UNCHANGED <<loopvars, transvars>>
    \/ KeyMove /\ UNCHANGED <<loopvars, transvars>>

----------------------------------------------------------------------------
\* calculate_motor_command called on its own ("translate").

Levels == {MAX_SPEED_LEVELS[i] : i \in 1..Len(MAX_SPEED_LEVELS)}

TransIdle ==
    /\ targs = <<0, 0, 100>>
    /\ tresult = <<>>

TransInit ==
    /\ targs \in Axis \X Axis \X Levels
    /\ tresult = <<>>

Translate ==
    /\ tresult = <<>>
    /\ tresult' = calculate_motor_command(targs[1], targs[2], targs[3])
    /\ UNCHANGED targs

TransNext == Translate /\ UNCHANGED <<loopvars, keyvars>>

----------------------------------------------------------------------------
\* The DualSense control loop.
Init == LoopInit /\ KeysInit /\ TransIdle

Next ==
    \/ TickQuit /\ UNCHANGED <<keyvars, transvars>>
    \/ TickEmergencyStop /\ UNCHANGED <<keyvars, transvars>>
    \/ TickDrive /\ UNCHANGED <<keyvars, transvars>>
    \/ Sleep /\ UNCHANGED <<keyvars, transvars>>

Spec == Init /\ [][Next]_vars

\* The keyboard loop.
SpecKeys == Init /\ [][KeysNext]_vars

\* The translation on its own.
InitTranslate == LoopInit /\ KeysInit /\ TransInit

SpecTranslate == InitTranslate /\ [][TransNext]_vars

----------------------------------------------------------------------------
\* Properties of the DualSense control loop (Spec).

\* C1: in every tick that reads the emergency button pressed and quit not
\* pressed, calculate_motor_command is not evaluated and every frame handed
\* to the transport is the stop frame (0,1,0,1,1), whatever the sticks read.
C1_EmergencyTickOnlyStop ==
    (started /\ sample.button_x /\ ~sample.button_circle) =>
        /\ ~mix_evaluated
        /\ \A i \in 1..Len(tick_frames) : tick_frames[i] = <<0, 1, 0, 1, 1>>

\* An emergency tick with both sticks deflected that sent the stop frame.
C1_Witness ==
    /\ started /\ sample.button_x /\ ~sample.button_circle
    /\ sample.left_x = 60 /\ sample.left_y = -100
    /\ tick_frames = <<(<<0, 1, 0, 1, 1>>)>>

\* C2: the first tick that reads the emergency button pressed, after a tick
\* that read it released or at loop start, hands the stop frame to the
\* transport in that same tick.
C2_StopOnRisingEdge ==
    (started /\ sample.button_x /\ ~sample.button_circle /\ ~prev_button_x) =>
        tick_frames = <<(<<0, 1, 0, 1, 1>>)>>

\* A rising-edge tick whose stop was written and the loop is back at the poll.
C2_Witness ==
    /\ started /\ sample.button_x /\ ~sample.button_circle /\ ~prev_button_x
    /\ tick_frames = <<(<<0, 1, 0, 1, 1>>)>>
    /\ emergency_stop_active
    /\ pc = "poll"

\* C3 (as claimed): every tick with the emergency stop engaged hands the
\* stop frame to the transport and then waits for the next tick boundary
\* (or ends on a failed write) before the next poll.
C3_EmergencyTickStopsThenSleeps ==
    [][(pc = "poll" /\ sample'.button_x /\ ~sample'.button_circle) =>
           /\ tick_frames' = <<(<<0, 1, 0, 1, 1>>)>>
           /\ pc' \in {"sleep", "failed"}]_vars

\* C4: a tick that reads the emergency button released right after a tick
\* that read it pressed hands the transport exactly the command that
\* calculate_motor_command gives for this tick's sticks and the current level.
C4_MixingResumesOnRelease ==
    (started /\ prev_button_x /\ ~sample.button_x /\ ~sample.button_circle) =>
        /\ mix_evaluated
        /\ ~emergency_stop_active
        /\ tick_frames = <<calculate_motor_command(
                               sample.left_x, sample.left_y,
                               MAX_SPEED_LEVELS[max_speed_index + 1])>>

\* A release tick that sent a moving command (duration 2).
C4_Witness ==
    /\ started /\ prev_button_x /\ ~sample.button_x /\ ~sample.button_circle
    /\ Len(tick_frames) = 1
    /\ tick_frames[1][5] = 2
    /\ tick_frames[1][1] > 0

\* C5: a tick that reads quit pressed hands the stop frame to the transport
\* exactly once and ends the loop, whatever the emergency button, dpad and
\* sticks read; once the loop has ended no further frame is handed over.
C5_QuitStopsOnceAndTerminates ==
    /\ [](started /\ sample.button_circle =>
              /\ tick_frames = <<(<<0, 1, 0, 1, 1>>)>>
              /\ pc \in {"done", "failed"}
              /\ ~mix_evaluated)
    /\ [](pc = "done" => sample.button_circle)
    /\ [][(pc = "done" \/ pc = "failed") =>
              (pc' = pc /\ tick_frames' = tick_frames)]_vars

\* The loop ended by quit with the emergency button, dpad up and stick held.
C5_Witness ==
    /\ pc = "done"
    /\ sample.button_circle /\ sample.button_x
    /\ sample.dpad = <<0, 1>> /\ sample.left_x = 60
    /\ tick_frames = <<(<<0, 1, 0, 1, 1>>)>>

\* C7 (as claimed): when a transport write of the loop fails (other than
\* the write of quit's own final stop) the loop exits after a final stop
\* command has been attempted, and the failure is reported.
C7_FinalStopAfterFailedWrite ==
    (pc = "failed" /\ ~sample.button_circle) =>
        /\ error_reported
        /\ Len(tick_frames) >= 2
        /\ tick_frames[Len(tick_frames)] = <<0, 1, 0, 1, 1>>

\* C8: the speed-level index starts at 2 and is always one of 0, 1, 2, so
\* the active level is always one of 50, 75, 100.
C8_SpeedIndexInLadder ==
    /\ max_speed_index \in {0, 1, 2}
    /\ (~started => max_speed_index = 2)
    /\ (max_speed_index \in {0, 1, 2} =>
            MAX_SPEED_LEVELS[max_speed_index + 1] \in {50, 75, 100})

\* The index at the bottom of the ladder while dpad down is read again.
C8_Witness ==
    /\ started /\ mix_evaluated
    /\ max_speed_index = 0
    /\ sample.dpad[2] = -1
    /\ pc = "sleep"

\* C9 (as claimed): a tick whose vertical dpad reading equals that of the
\* tick before leaves the speed-level index unchanged.
C9_IndexChangesOnlyOnVerticalEdge ==
    [][(pc = "poll" /\ started /\ sample'.dpad[2] = sample.dpad[2]) =>
           max_speed_index' = max_speed_index]_vars

\* C13: every frame handed to the transport has exactly 5 bytes, the fields
\* of the command in the order speed_a, dir_a, speed_b, dir_b, duration and
\* unchanged; the duration byte is 1 in the stop command and 2 in every
\* command mixed from a stick outside the deadzone.
C13_FrameIsTheCommand ==
    \A i \in 1..Len(tick_frames) :
        LET f == tick_frames[i]
            centred == Abs(sample.left_x) < 10 /\ Abs(sample.left_y) < 10
            command == IF mix_evaluated
                       THEN calculate_motor_command(
                                sample.left_x, sample.left_y,
                                MAX_SPEED_LEVELS[max_speed_index + 1])
                       ELSE <<0, 1, 0, 1, 1>>
        IN  /\ Len(f) = 5
            /\ \A j \in 1..5 : f[j] \in 0..255 /\ f[j] = command[j]
            /\ f[5] = IF mix_evaluated /\ ~centred THEN 2 ELSE 1

\* A normal tick at level 100 with both sticks fully deflected.
C13_Witness ==
    /\ mix_evaluated
    /\ sample.left_x = -100 /\ sample.left_y = -100
    /\ max_speed_index = 2
    /\ tick_frames = <<(<<20, 1, 80, 1, 2>>)>>

\* C14: a detected dpad-up edge moves the index from i to min(2, i+1), a
\* detected dpad-down edge from i to max(0, i-1), without wraparound.
C14_EdgesSaturate ==
    [][(/\ pc = "poll"
        /\ ~sample'.button_x /\ ~sample'.button_circle
        /\ sample'.dpad # last_dpad_state) =>
           max_speed_index' =
               IF sample'.dpad[2] = 1
               THEN (IF max_speed_index + 1 > 2 THEN 2 ELSE max_speed_index + 1)
               ELSE IF sample'.dpad[2] = -1
               THEN (IF max_speed_index - 1 < 0 THEN 0 ELSE max_speed_index - 1)
               ELSE max_speed_index]_vars

\* An up reading that moved the index from the bottom of the ladder to 1.
C14_Witness ==
    /\ started /\ mix_evaluated
    /\ prev_index = 0 /\ max_speed_index = 1
    /\ sample.dpad[2] = 1

\* C17: every normal tick (no quit, no emergency stop) hands the transport
\* exactly one frame, the command mixed at the speed level as it is after
\* this tick's dpad adjustment.
C17_LevelUpdatedBeforeMixing ==
    (started /\ ~sample.button_x /\ ~sample.button_circle) =>
        /\ Len(tick_frames) = 1
        /\ tick_frames[1] =
               calculate_motor_command(
                   sample.left_x, sample.left_y,
                   MAX_SPEED_LEVELS[max_speed_index + 1])

\* A tick whose dpad-down edge lowered the level from 100 to 75 and whose
\* frame is the one mixed at 75 (it would be (20,1,80,1,2) at 100).
C17_Witness ==
    /\ started /\ ~sample.button_x /\ ~sample.button_circle
    /\ prev_index = 2 /\ max_speed_index = 1
    /\ sample.left_x = -100 /\ sample.left_y = -100
    /\ tick_frames = <<(<<15, 1, 59, 1, 2>>)>>

\* C18 (as claimed): a tick that evaluates the speed level derives the dpad
\* edge from the reading of the immediately preceding tick, also when that
\* tick was an emergency-stop tick.
C18_EdgeAgainstPrecedingTick ==
    [][(/\ pc = "poll" /\ started
        /\ ~sample'.button_x /\ ~sample'.button_circle) =>
           max_speed_index' =
               SpeedIndexAfterDpad(max_speed_index, sample'.dpad, sample.dpad)]_vars

\* C19: an emergency-stop tick leaves the speed-level index as it found it,
\* whatever the dpad reads.
C19_EmergencyTickKeepsLevel ==
    (started /\ sample.button_x /\ ~sample.button_circle) =>
        max_speed_index = prev_index

\* An emergency-stop tick that read a fresh dpad-down at index 2.
C19_Witness ==
    /\ started /\ sample.button_x /\ ~sample.button_circle
    /\ sample.dpad = <<0, -1>> /\ last_dpad_state = <<0, 0>>
    /\ prev_index = 2 /\ max_speed_index = 2

----------------------------------------------------------------------------
\* Properties of the keyboard loop (SpecKeys).

\* C6 (as claimed): a keyboard session ended by "q" has the stop frame as
\* the last frame handed to the transport.
C6_KeyboardQuitEndsWithStop ==
    kpc = "done" =>
        /\ ksent # <<>>
        /\ ksent[Len(ksent)] = <<0, 1, 0, 1, 1>>

----------------------------------------------------------------------------
\* Properties of calculate_motor_command (SpecTranslate).

\* C10: with both axes strictly inside the deadzone the translation
\* returns the canonical stop command at every speed level.
C10_DeadzoneGivesStop ==
    (tresult # <<>> /\ Abs(targs[1]) < 10 /\ Abs(targs[2]) < 10) =>
        tresult = <<0, 1, 0, 1, 1>>

\* Both axes just inside the deadzone, at the lowest level.
C10_Witness ==
    /\ targs = <<9, -9, 50>>
    /\ tresult = <<0, 1, 0, 1, 1>>

\* C11: for every stick position in [-1,1] x [-1,1] and every level the
\* returned command has both speeds in 0..100 and both directions in {0,1}.
C11_CommandFieldsInRange ==
    tresult # <<>> =>
        /\ tresult[1] \in 0..100 /\ tresult[3] \in 0..100
        /\ tresult[2] \in {0, 1} /\ tresult[4] \in {0, 1}

\* Full deflection on both axes at level 100: the largest wheel speed, with
\* the other wheel running backward.
C11_Witness ==
    /\ targs = <<100, 100, 100>>
    /\ tresult = <<20, 0, 80, 0, 2>>

\* C12: both wheel speeds of the returned command are at most the speed
\* level it was computed for, pure turns with the +25 boost included.
C12_SpeedsWithinLevel ==
    tresult # <<>> =>
        /\ tresult[1] <= targs[3]
        /\ tresult[3] <= targs[3]

\* A boosted pure turn at the lowest level: 15 + 25 = 40 <= 50.
C12_Witness ==
    /\ targs = <<100, 0, 50>>
    /\ tresult = <<40, 1, 40, 0, 2>>

\* C15: with x inside the deadzone and y outside it both wheels get the
\* speed trunc(|y| * 50 * level / 100) and the same direction, forward (1)
\* for y < 0 and backward (0) for y > 0.
C15_StraightDriving ==
    (tresult # <<>> /\ Abs(targs[1]) < 10 /\ Abs(targs[2]) >= 10) =>
        LET mag == (Abs(targs[2]) * 50 * targs[3]) \div (100 * 100)
            dir == IF targs[2] < 0 THEN 1 ELSE 0
        IN  tresult = <<mag, dir, mag, dir, 2>>

\* translate(x=0, y=-1, level=100): 50 forward on both wheels.
C15_Witness ==
    /\ targs = <<0, -100, 100>>
    /\ tresult = <<50, 1, 50, 1, 2>>

\* C16: with y inside the deadzone and x outside it both wheels get the
\* speed trunc(|x| * 30 * level / 100) + 25 with opposite directions: A
\* forward and B backward for x > 0, the reverse for x < 0.
C16_PureTurnBoost ==
    (tresult # <<>> /\ Abs(targs[2]) < 10 /\ Abs(targs[1]) >= 10) =>
        LET mag == (Abs(targs[1]) * 30 * targs[3]) \div (100 * 100) + 25
            dir_a == IF targs[1] > 0 THEN 1 ELSE 0
        IN  tresult = <<mag, dir_a, mag, 1 - dir_a, 2>>

\* translate(x=1.0, y=0, level=100): 55 forward on A, 55 backward on B.
C16_Witness ==
    /\ targs = <<100, 0, 100>>
    /\ tresult = <<55, 1, 55, 0, 2>>

\* C20: with at least one axis at or beyond the deadzone the returned
\* command has duration 2 and at least one wheel speed above 0; both speeds
\* are 0 only in the canonical stop command.
C20_MovingCommandMoves ==
    tresult # <<>> =>
        /\ (Abs(targs[1]) >= 10 \/ Abs(targs[2]) >= 10) =>
               (tresult[5] = 2 /\ (tresult[1] > 0 \/ tresult[3] > 0))
        /\ (tresult[1] = 0 /\ tresult[3] = 0) <=> (tresult = <<0, 1, 0, 1, 1>>)

\* The weakest command: y just at the deadzone at the lowest level.
C20_Witness ==
    /\ targs = <<0, 10, 50>>
    /\ tresult = <<2, 0, 2, 0, 2>>

====
